---------------------------- MODULE Spec2Model ----------------------------
(***************************************************************************)
(* A model of execute_batch_scheduler: one backend instance (BasicMgr,     *)
(* SSHMgr or SlurmMgr) of backends.py, the external things it talks to     *)
(* (the spawned process and its pipes, the Slurm commands and the job's    *)
(* result files) and the two kinds of caller: a client that calls the      *)
(* backend's methods in any order, and the cell magic                      *)
(* ExecuteMagics.execute of execute_magic.py.                              *)
(*                                                                         *)
(* Texts are modelled by short strings.  A text that the code searches     *)
(* with str.find (the sbatch acknowledgment, the sacct / squeue output)    *)
(* is a sequence of tokens, cut so that every word the code looks for is   *)
(* a token of its own; str.find(word) >= 0 is then "word is a token".      *)
(* Python's None is the string None_, an attribute the constructor never   *)
(* assigned is absent from attrs, and an exception leaving a method is     *)
(* returned to the caller as ret.kind = "raise".                           *)
(***************************************************************************)
EXTENDS Integers, Sequences, FiniteSets, TLC

\* ------------------------------------------------------------------ bounds
\* the number of method calls the client makes on one instance
MaxCalls == 4
\* the number of job-state queries / liveness polls of one instance
MaxPolls == 4
\* the number of user interrupts (KeyboardInterrupt) delivered to one instance
MaxInterrupts == 1
\* the length of a step sequence driven directly, and the largest s given to
\* _print_step_and_wait
MaxSteps == 31

\* ------------------------------------------------------------ vocabulary
None_ == "None"

Backends == {"basic", "ssh", "slurm"}

\* a run vocabulary that also lists a word of the wait vocabulary
run_states_Pending == {"COMPLETING", "RUNNING", "SUSPENDED", "PENDING"}

\* an end vocabulary without TIMEOUT
end_states_NoTimeout == {"CANCELLED", "COMPLETED", "FAILED", "NODE_FAIL", "PREEMPTED"}

\* SlurmMgr._end_states, _wait_states, _run_states
end_states == {"CANCELLED", "COMPLETED", "FAILED", "NODE_FAIL", "PREEMPTED", "TIMEOUT"}
wait_states == {"CONFIGURING", "PENDING"}
run_states == {"COMPLETING", "RUNNING", "SUSPENDED"}

\* jobstate.find(s) >= 0 on a tokenised text
Find(text, s) == \E i \in DOMAIN text : text[i] = s

\* all([jobstate.find(s) < 0 for s in self._end_states])
NoEndState(js) == \A s \in end_states : ~Find(js, s)
\* a wait test that knows CONFIGURING only
AnyWaitState_Configuring(js) == Find(js, "CONFIGURING")

\* any([jobstate.find(s) >= 0 for s in self._wait_states])
AnyWaitState(js) == \E s \in wait_states : Find(js, s)
\* any([jobstate.find(s) >= 0 for s in self._run_states])
AnyRunState(js) == \E s \in run_states : Find(js, s)

\* What sacct prints for the job: nothing while it has no record of the job,
\* else one state word (CANCELLED is followed by "by <uid>").
SacctOut == { <<>>, <<"PENDING">>, <<"COMPLETED">>, <<"CANCELLED", " by 0">> }
\* What squeue prints: the format '%T' is passed with its quotes.
SqueueOut == { <<>>, <<"'", "RUNNING", "'">> }

\* Every answer of one state word: the words of the three vocabularies and
\* BOOT_FAIL, a Slurm state the code has no word for.
SlurmWords ==
  {"CANCELLED", "COMPLETED", "FAILED", "NODE_FAIL", "PREEMPTED", "TIMEOUT",
   "CONFIGURING", "PENDING", "COMPLETING", "RUNNING", "SUSPENDED", "BOOT_FAIL"}
FullOutputs ==
  {<<w>> : w \in SlurmWords} \cup {<<"CANCELLED", " by 0">>}
  \cup {<<>>} \cup {<<"'", w, "'">> : w \in {"PENDING", "RUNNING"}}

\* What sbatch answers on its standard output: the text, and its tokens
\* (the marker, the blanks, the other pieces).
AckOk == [text |-> "Submitted batch job 4242\n",
          tokens |-> <<"Submitted batch job", " ", "4242", "\n">>]
AckCluster == [text |-> "Submitted batch job 4242 on cluster c\n",
               tokens |-> <<"Submitted batch job", " ", "4242", " ", "on", " ",
                            "cluster", " ", "c", "\n">>]
AckRejected == [text |-> "sbatch: error: Batch job submission failed\n",
                tokens |-> <<"sbatch:", " ", "error:", " ", "Batch", " ", "job",
                             " ", "submission", " ", "failed", "\n">>]
AckNothing == [text |-> "", tokens |-> <<>>]
SbatchOut == {AckOk, AckCluster, AckRejected, AckNothing}

\* out.find("Submitted batch job") == 0
StartsWithMarker(tokens) == Len(tokens) > 0 /\ tokens[1] = "Submitted batch job"

\* out.split(' ')[-1]: the pieces after the last blank
LastPiece(tokens) ==
  LET blanks == {i \in DOMAIN tokens : tokens[i] = " "}
      from == IF blanks = {} THEN 1
              ELSE 1 + CHOOSE i \in blanks : \A j \in blanks : j <= i
  IN SubSeq(tokens, from, Len(tokens))

\* int(piece): white space around the digits is dropped; anything else is
\* a ValueError, given here as -1.
IntOf(piece) ==
  LET kept == SelectSeq(piece, LAMBDA x : x # "\n")
  IN IF kept = <<"4242">> THEN 4242 ELSE -1

\* What the spawned process leaves on its pipes, and the job in its files.
OutText == {"", "o1"}
ErrText == {"", "e1"}
Missing == "missing"
FileOut == {Missing, "o1", "o2"}
FileErr == {Missing, "e1"}

\* -------------------------------------------------------------- the state
VARIABLES
  wlm,            \* the backend class of the instance
  args_var,       \* whether --pid (ssh) / --jobid (slurm) names a variable
  step_s,         \* the argument s of a direct _print_step_and_wait call
  sched,          \* what the scheduler can answer: "short" (SacctOut and
                  \* SqueueOut) or "full" (FullOutputs)
  exe_found,      \* whether the program to spawn exists (else ENOENT)
  proc,           \* the spawned process: "none", "alive" or "exited"
  p_stdout,       \* what is left to read on the process's stdout pipe
  p_stderr,       \* what is left to read on the process's stderr pipe
  file_out,       \* the job's .out file when get_output last looked
  file_err,       \* the job's .err file when get_output last looked
  attrs,          \* the attributes assigned so far among p, _is_started,
                  \* _is_terminated, _jobid
  is_started,     \* self._is_started
  is_terminated,  \* self._is_terminated
  jobid,          \* self._jobid
  out,            \* self.out
  err,            \* self.err
  waiting_steps,  \* self._waiting_steps
  running_steps,  \* self._running_steps
  comm_started,   \* self.p._communication_started
  userns,         \* the values written to the caller's namespace, in order
  pc,             \* where the running call stands; "new" before construction,
                  \* "idle" between calls
  silent,         \* the running wait_progress call's silent argument
  cont,           \* the method that called _interrupt
  jobstate,       \* wait_progress's local variable jobstate
  caller,         \* "client" or "execute"
  last_call,      \* the method called last
  ret,            \* what the last call returned or raised
  ncalls,         \* the number of method calls made
  npolls,         \* the number of job-state queries and liveness polls made
  line,           \* the magic line's options: [bg, amgr]
  signals,        \* the signals _interrupt asked for, in order
  polls,          \* what each liveness check of _interrupt saw, in order
  cmds,           \* the Slurm commands of the running (or last) call, in
                  \* order: "state" for a _get_job_state, "scancel"
  seen,           \* how many job states of each bucket that call was given
  stdout,         \* how often each text of Counted was written to sys.stdout
  wrote,          \* what the last step wrote to sys.stdout, in order
  stderr,         \* what the running (or last) call wrote to sys.stderr
  interrupts,     \* the number of user interrupts delivered
  slept,          \* the sleeps of the running (or last) call's steps, in seconds
  first_pair      \* the first pair get_output returned for a terminated job

cfg == <<wlm, args_var, step_s, sched>>
env == <<exe_found, proc, p_stdout, p_stderr, file_out, file_err>>
flags == <<attrs, is_started, is_terminated, jobid>>
memo == <<out, err>>
steps == <<waiting_steps, running_steps>>
ctl == <<pc, silent, cont, jobstate, caller, last_call, ret, ncalls, npolls, line>>
console == <<stdout, wrote>>
hist == <<signals, polls, cmds, seen, console, stderr, interrupts,
         slept, first_pair>>
vars == <<cfg, env, flags, memo, steps, comm_started, userns, ctl, hist>>

\* The state word of a scheduler answer: sacct prints the word (CANCELLED
\* with "by <uid>" after it), squeue prints it between the quotes of '%T'.
Word(js) ==
  IF Len(js) = 1 THEN js[1]
  ELSE IF Len(js) = 2 /\ js[1] = "CANCELLED" THEN js[1]
  ELSE IF Len(js) = 3 /\ js[1] = "'" /\ js[3] = "'" THEN js[2]
  ELSE ""

\* The buckets of the job states the scheduler can report, as the spec's
\* vocabularies give them.
Bucket(js) ==
  CASE Word(js) \in {"CONFIGURING", "PENDING"} -> "wait"
    [] Word(js) \in {"COMPLETING", "RUNNING", "SUSPENDED"} -> "run"
    [] Word(js) \in {"CANCELLED", "COMPLETED", "FAILED", "NODE_FAIL",
                     "PREEMPTED", "TIMEOUT"} -> "end"
    [] OTHER -> "none"
NoneSeen == [wait |-> 0, run |-> 0, end |-> 0, none |-> 0]

\* The texts whose occurrences on sys.stdout are counted: the two banners
\* and the newline between the waiting and the running sequence.  (The
\* newline that ends a call is part of the text that follows it.)
Counted == {"Waiting for resources ", "Running ", "\n"}

\* the counts after ws was written
Added(bag, ws) ==
  [x \in Counted |-> bag[x] + Cardinality({i \in DOMAIN ws : ws[i] = x})]

\* ----------------------------------------------------------- return values
Returned(a, b) == [kind |-> "pair", a |-> a, b |-> b]
ReturnedNone == [kind |-> "none", a |-> None_, b |-> None_]
Raised(exc) == [kind |-> "raise", a |-> exc, b |-> None_]
NoReturn == [kind |-> "running", a |-> None_, b |-> None_]

Write(ws) == wrote' = ws /\ stdout' = Added(stdout, ws)

Init ==
  /\ wlm \in Backends
  /\ args_var \in BOOLEAN
  /\ step_s = 0 /\ sched = "short"
  /\ exe_found \in BOOLEAN
  /\ proc = "none" /\ p_stdout = "" /\ p_stderr = ""
  /\ file_out = Missing /\ file_err = Missing
  /\ attrs = {} /\ is_started = FALSE /\ is_terminated = FALSE /\ jobid = 0
  /\ out = None_ /\ err = None_
  /\ waiting_steps = 0 /\ running_steps = 0
  /\ comm_started = FALSE /\ userns = <<>>
  /\ pc = "new" /\ silent = FALSE /\ cont = "" /\ jobstate = <<>>
  /\ caller = "client" /\ last_call = "" /\ ret = NoReturn /\ ncalls = 0
  /\ npolls = 0 /\ line = [bg |-> FALSE, amgr |-> FALSE]
  /\ signals = <<>> /\ polls = <<>> /\ cmds = <<>> /\ seen = NoneSeen
  /\ stdout = [x \in Counted |-> 0] /\ wrote = <<>> /\ stderr = <<>>
  /\ interrupts = 0 /\ slept = <<>> /\ first_pair = NoReturn

\* ------------------------------------------------------------ constructors
\* BaseMgr.__init__ leaves the counters at 0 and out, err at None, as in Init.

\* The client builds the instance with (args, shell, userns).
\* Popen of BasicMgr.__init__ and SlurmMgr.__init__: ENOENT is printed and
\* the constructor returns, leaving self.p unassigned.
Spawned(found, base) ==
  /\ attrs' = IF found THEN base \cup {"p"} ELSE base
  /\ proc' = IF found THEN "alive" ELSE "none"
  /\ Write(IF found THEN <<>> ELSE <<"Couldn't find program">>)

BasicMgr_init ==
  /\ pc = "new" /\ wlm = "basic"
  /\ Spawned(exe_found, {})
  /\ pc' = "idle" /\ last_call' = "__init__" /\ ret' = ReturnedNone
  /\ UNCHANGED <<cfg, exe_found, p_stdout, p_stderr, file_out, file_err,
                 is_started, is_terminated, jobid, memo, steps, comm_started,
                 userns, silent, cont, jobstate, caller, ncalls, npolls, line,
                 signals, polls, cmds, seen, stderr, interrupts, slept,
                 first_pair>>

\* SSHMgr.__init__ spawns nothing and assigns no flag.
SSHMgr_init ==
  /\ pc = "new" /\ wlm = "ssh"
  /\ pc' = "idle" /\ last_call' = "__init__" /\ ret' = ReturnedNone
  /\ UNCHANGED <<cfg, env, flags, memo, steps, comm_started, userns,
                 silent, cont, jobstate, caller, ncalls, npolls, line, hist>>

SlurmMgr_init ==
  /\ pc = "new" /\ wlm = "slurm"
  /\ is_started' = FALSE /\ is_terminated' = FALSE
  /\ Spawned(exe_found, {"_is_started", "_is_terminated"})
  /\ pc' = "idle" /\ last_call' = "__init__" /\ ret' = ReturnedNone
  /\ UNCHANGED <<cfg, exe_found, p_stdout, p_stderr, file_out, file_err,
                 jobid, memo, steps, comm_started,
                 userns, silent, cont, jobstate, caller, ncalls, npolls, line,
                 signals, polls, cmds, seen, stderr, interrupts, slept,
                 first_pair>>

\* ------------------------------------------------------ ExecuteMagics.execute
\* The parameters every backend constructor takes after self, and the
\* arguments execute passes: (cmd + extra_cmd, args.shell).
CtorParams == 3
ExecuteCtorArgs == 2

\* The cell magic parses its line and builds the backend.  The call passes
\* two arguments to a constructor of three parameters, so Python raises
\* TypeError before any instance exists: the statements after it (submit,
\* the background branch, wait_progress, get_output) are never run.
execute ==
  /\ pc = "new"
  /\ \E b \in BOOLEAN, a \in BOOLEAN : line' = [bg |-> b, amgr |-> a]
  /\ caller' = "execute" /\ last_call' = "execute"
  /\ IF ExecuteCtorArgs = CtorParams
       THEN pc' = "built" /\ ret' = NoReturn
       ELSE pc' = "exited" /\ ret' = Raised("TypeError")
  /\ UNCHANGED <<cfg, env, flags, memo, steps, comm_started, userns,
                 silent, cont, jobstate, ncalls, npolls, hist>>

\* ------------------------------------------------------------ the client
CanCall == pc = "idle" /\ caller = "client" /\ ncalls < MaxCalls

\* A call begins: the per-call records start empty.
Begin(name) ==
  /\ last_call' = name /\ ncalls' = ncalls + 1
  /\ cmds' = <<>> /\ seen' = NoneSeen /\ slept' = <<>>

\* The call ends at once, returning or raising r, having written so and se.
End(r, so, se) ==
  /\ pc' = "idle" /\ ret' = r /\ Write(so) /\ stderr' = se

\* --------------------------------------------------------------- BasicMgr
\* Popen.communicate(script) refuses input once communication has started.
CommunicateError ==
  IF "p" \notin attrs THEN "AttributeError"
  ELSE IF comm_started THEN "ValueError"
  ELSE ""

BasicMgr_submit ==
  /\ CanCall /\ wlm = "basic"
  /\ Begin("submit")
  /\ IF CommunicateError # ""
       THEN /\ End(Raised(CommunicateError), <<>>, <<>>)
            /\ UNCHANGED comm_started
       ELSE /\ pc' = "communicate" /\ ret' = NoReturn
            /\ Write(<<>>) /\ stderr' = <<>>
            /\ comm_started' = TRUE
  /\ UNCHANGED <<cfg, env, flags, memo, steps, userns, silent, cont, jobstate,
                 caller, npolls, line, signals, polls, interrupts,
                 first_pair>>

\* communicate returns: the process has exited and its output is captured.
BasicMgr_submit_done ==
  /\ pc = "communicate" /\ wlm = "basic"
  /\ \E o \in OutText, e \in ErrText :
       /\ out' = o /\ err' = e
       /\ ret' = Returned(o, e)
  /\ proc' = "exited" /\ pc' = "idle"
  /\ UNCHANGED <<cfg, exe_found, p_stdout, p_stderr, file_out, file_err, flags,
                 steps, comm_started, userns, silent, cont, jobstate, caller,
                 last_call, ncalls, npolls, line, hist>>

\* wait_progress(self) has no parameter silent: called with silent=True, as
\* the background runner calls it, Python raises TypeError.
BasicMgr_wait_progress ==
  /\ CanCall /\ wlm = "basic"
  /\ Begin("wait_progress")
  /\ \E sil \in BOOLEAN :
       /\ silent' = sil
       /\ End(IF sil THEN Raised("TypeError") ELSE ReturnedNone, <<>>, <<>>)
  /\ UNCHANGED <<cfg, env, flags, memo, steps, comm_started, userns,
                 cont, jobstate, caller, npolls, line, signals, polls,
                 interrupts, first_pair>>

\* get_output records the first pair it returns for a terminated job.
Noted(r, terminated) ==
  IF terminated /\ r.kind = "pair" /\ first_pair = NoReturn THEN r ELSE first_pair

\* a get_output that returns what submit kept
BasicMgr_get_output_Memo ==
  /\ CanCall /\ wlm = "basic"
  /\ Begin("get_output")
  /\ End(Returned(out, err), <<>>, <<>>)
  /\ first_pair' = Noted(Returned(out, err), proc = "exited")
  /\ UNCHANGED <<cfg, env, flags, memo, steps, comm_started, userns, silent,
                 cont, jobstate, caller, npolls, line, signals, polls,
                 interrupts>>

BasicMgr_get_output ==
  /\ CanCall /\ wlm = "basic"
  /\ Begin("get_output")
  /\ End(Returned(None_, None_), <<>>, <<>>)
  /\ first_pair' = Noted(Returned(None_, None_), proc = "exited")
  /\ UNCHANGED <<cfg, env, flags, memo, steps, comm_started, userns, silent,
                 cont, jobstate, caller, npolls, line, signals, polls,
                 interrupts>>

\* ------------------------------------------------------ BaseMgr._interrupt
\* _interrupt returns to the handler that called it: submit of BasicMgr and
\* SlurmMgr then returns None, submit of SSHMgr goes on.
Resume ==
  IF cont = "ssh_submit"
    THEN pc' = "ssh_interrupted" /\ UNCHANGED ret
    ELSE pc' = "idle" /\ ret' = ReturnedNone

\* a ladder that goes on to the next signal whatever the liveness check saw
Signal_Unchecked(sig, said, next) ==
  /\ signals' = Append(signals, sig)
  /\ \E gone \in (IF proc = "alive" THEN BOOLEAN ELSE {TRUE}) :
       /\ polls' = Append(polls, gone)
       /\ proc' = IF gone THEN "exited" ELSE proc
  /\ pc' = next
  /\ UNCHANGED <<p_stdout, p_stderr, console, ret>>

\* send a signal; an OSError ends the ladder silently.  Otherwise sleep,
\* then poll: the process may or may not have exited by now.
Signal(sig, said, next) ==
  /\ signals' = Append(signals, sig)
  /\ \/ /\ Resume
        /\ UNCHANGED <<polls, proc, p_stdout, p_stderr, console>>
     \/ \E gone \in (IF proc = "alive" THEN BOOLEAN ELSE {TRUE}) :
          /\ polls' = Append(polls, gone)
          /\ IF gone
               THEN /\ proc' = "exited"
                    /\ Write(<<said>>)
                    /\ Resume
               ELSE /\ pc' = next
                    /\ UNCHANGED <<proc, console, ret>>
          /\ UNCHANGED <<p_stdout, p_stderr>>

interrupt_sigint ==
  /\ pc = "sigint"
  /\ Signal("SIGINT", "Process is interrupted.", "terminate")
  /\ UNCHANGED <<cfg, exe_found, file_out, file_err, flags, memo, steps,
                 comm_started, userns, silent, cont, jobstate, caller,
                 last_call, ncalls, npolls, line, cmds, seen, stderr, interrupts, slept, first_pair>>

interrupt_terminate ==
  /\ pc = "terminate"
  /\ Signal("SIGTERM", "Process is terminated.", "kill")
  /\ UNCHANGED <<cfg, exe_found, file_out, file_err, flags, memo, steps,
                 comm_started, userns, silent, cont, jobstate, caller,
                 last_call, ncalls, npolls, line, cmds, seen, stderr, interrupts, slept, first_pair>>

\* kill is not followed by a liveness check.
interrupt_kill ==
  /\ pc = "kill"
  /\ signals' = Append(signals, "SIGKILL")
  /\ \/ UNCHANGED <<proc, console>>
     \/ /\ proc' = "exited"
        /\ Write(<<"Process is killed.">>)
  /\ Resume
  /\ UNCHANGED <<cfg, exe_found, p_stdout, p_stderr, file_out, file_err, flags,
                 memo, steps, comm_started, userns, silent, cont, jobstate,
                 caller, last_call, ncalls, npolls, line, polls, cmds, seen, stderr,
                 interrupts, slept, first_pair>>

\* ------------------------------------------- BaseMgr._print_step_and_wait
\* The rows (limit, seconds, character); the last limit is 1e12 in the source.
LastLimit == 2147483647
StepTable == << [l |-> 10, t |-> 1, c |-> "."],
                [l |-> 20, t |-> 10, c |-> "o"],
                [l |-> 30, t |-> 60, c |-> "O"],
                [l |-> LastLimit, t |-> 600, c |-> "@"] >>

\* a row test that lets s = limit through
StepRow_Inclusive(s) ==
  StepTable[CHOOSE i \in DOMAIN StepTable :
              /\ s <= StepTable[i].l
              /\ \A j \in 1..(i - 1) : ~(s <= StepTable[j].l)]

\* [v for v in (...) if s < v[0]][0]
StepRow(s) ==
  StepTable[CHOOSE i \in DOMAIN StepTable :
              /\ s < StepTable[i].l
              /\ \A j \in 1..(i - 1) : ~(s < StepTable[j].l)]

\* What _print_step_and_wait(s, silent) writes and how long it sleeps.
print_step_and_wait(s, sil) ==
  LET row == StepRow(s)
  IN [w |-> IF s < row.l /\ ~sil THEN <<row.c>> ELSE <<>>,
      t |-> IF s < row.l THEN <<row.t>> ELSE <<>>]

\* _step_running, after `before` was written
step_running(before) ==
  LET banner == IF ~silent /\ running_steps = 0 THEN <<"Running ">> ELSE <<>>
      p == print_step_and_wait(running_steps + 1, silent)
  IN /\ running_steps' = running_steps + 1
     /\ Write(before \o banner \o p.w)
     /\ slept' = slept \o p.t
     /\ UNCHANGED waiting_steps

\* a waiting step that writes its banner on every non-silent step
step_waiting_Rebanner ==
  LET banner == IF ~silent THEN <<"Waiting for resources ">> ELSE <<>>
      p == print_step_and_wait(waiting_steps + 1, silent)
  IN /\ waiting_steps' = waiting_steps + 1
     /\ Write(banner \o p.w)
     /\ slept' = slept \o p.t
     /\ UNCHANGED running_steps

step_waiting ==
  LET banner == IF ~silent /\ waiting_steps = 0
                  THEN <<"Waiting for resources ">> ELSE <<>>
      p == print_step_and_wait(waiting_steps + 1, silent)
  IN /\ waiting_steps' = waiting_steps + 1
     /\ Write(banner \o p.w)
     /\ slept' = slept \o p.t
     /\ UNCHANGED running_steps

\* ----------------------------------------------------------------- SSHMgr
\* a get_output that reads again on every call
MemoEmpty_Reread == TRUE

\* if self.out is None and self.err is None
MemoEmpty == out = None_ /\ err = None_

\* get_output of a terminated job, the pipes holding po and pe up to their
\* end: the first call reads them and keeps what it read.
ssh_read(po, pe) ==
  /\ IF MemoEmpty
       THEN /\ out' = po /\ err' = pe
            /\ p_stdout' = "" /\ p_stderr' = ""
       ELSE /\ UNCHANGED memo
            /\ p_stdout' = po /\ p_stderr' = pe
  /\ ret' = Returned(out', err')

SSHMgr_submit ==
  /\ CanCall /\ wlm = "ssh"
  /\ Begin("submit")
  /\ is_terminated' = FALSE /\ attrs' = attrs \cup {"_is_terminated"}
  /\ pc' = "spawn" /\ ret' = NoReturn /\ Write(<<>>) /\ stderr' = <<>>
  /\ UNCHANGED <<cfg, env, is_started, jobid, memo, steps, comm_started,
                 userns, silent, cont, jobstate, caller, npolls, line, signals,
                 polls, interrupts, first_pair>>

\* Popen, then the one liveness check.  A process still alive sends submit
\* to `_args.pid`, a name __init__ kept to itself: NameError.
SSHMgr_submit_spawn ==
  /\ pc = "spawn"
  /\ IF ~exe_found
       THEN /\ End(ReturnedNone, <<"Couldn't find program">>, <<>>)
            /\ UNCHANGED <<attrs, is_terminated, proc, p_stdout, p_stderr, memo>>
       ELSE /\ attrs' = attrs \cup {"p"}
            /\ Write(<<>>) /\ stderr' = <<>> /\ pc' = "idle"
            /\ \E alive \in BOOLEAN :
                 IF alive
                   THEN /\ proc' = "alive" /\ p_stdout' = "" /\ p_stderr' = ""
                        /\ ret' = Raised("NameError")
                        /\ UNCHANGED <<is_terminated, memo>>
                   ELSE /\ proc' = "exited"
                        /\ is_terminated' = TRUE
                        /\ \E po \in OutText, pe \in ErrText : ssh_read(po, pe)
  /\ UNCHANGED <<cfg, exe_found, file_out, file_err, is_started, jobid, steps,
                 comm_started, userns, silent, cont, jobstate, caller,
                 last_call, ncalls, npolls, line, signals, polls, cmds, seen,
                 interrupts, slept, first_pair>>

\* submit after its KeyboardInterrupt handler ran _interrupt on the process
\* of an earlier submit.
SSHMgr_submit_interrupted ==
  /\ pc = "ssh_interrupted"
  /\ is_terminated' = TRUE /\ pc' = "idle"
  /\ IF proc = "alive"
       THEN /\ ret' = Raised("NameError")
            /\ UNCHANGED <<memo, p_stdout, p_stderr>>
       ELSE ssh_read(p_stdout, p_stderr)
  /\ UNCHANGED <<cfg, exe_found, proc, file_out, file_err, attrs, is_started,
                 jobid, steps, comm_started, userns, silent, cont, jobstate,
                 caller, last_call, ncalls, npolls, line, hist>>

SSHMgr_wait_progress ==
  /\ CanCall /\ wlm = "ssh"
  /\ Begin("wait_progress")
  /\ \E sil \in BOOLEAN : silent' = sil
  /\ IF "p" \notin attrs
       THEN End(Raised("AttributeError"), <<>>, <<>>)
       ELSE pc' = "ssh_poll" /\ ret' = NoReturn /\ Write(<<>>) /\ stderr' = <<>>
  /\ UNCHANGED <<cfg, env, flags, memo, steps, comm_started, userns, cont,
                 jobstate, caller, npolls, line, signals, polls, interrupts, first_pair>>

\* One turn of `while self.p.poll() is None`, or the end of the loop.
SSHMgr_wait_progress_poll ==
  /\ pc = "ssh_poll"
  /\ IF proc = "alive"
       THEN /\ npolls < MaxPolls /\ npolls' = npolls + 1
            /\ step_running(<<>>)
            /\ UNCHANGED <<pc, ret, attrs, is_terminated>>
       ELSE /\ Write((IF silent THEN <<>> ELSE <<"\nDone\n">>))
            /\ is_terminated' = TRUE /\ attrs' = attrs \cup {"_is_terminated"}
            /\ pc' = "idle" /\ ret' = ReturnedNone
            /\ UNCHANGED <<steps, slept, npolls>>
  /\ UNCHANGED <<cfg, env, is_started, jobid, memo, comm_started, userns,
                 silent, cont, jobstate, caller, last_call, ncalls, line,
                 signals, polls, cmds, seen, stderr, interrupts, first_pair>>

\* Reading a pipe to its end returns once the process has closed it.
SSHMgr_get_output ==
  /\ CanCall /\ wlm = "ssh"
  /\ Begin("get_output")
  /\ Write(<<>>) /\ stderr' = <<>> /\ pc' = "idle"
  /\ IF "_is_terminated" \notin attrs
       THEN /\ ret' = Raised("AttributeError")
            /\ UNCHANGED <<memo, proc, p_stdout, p_stderr>>
       ELSE IF is_terminated
         THEN /\ \E po \in (IF proc = "alive" /\ MemoEmpty THEN OutText ELSE {p_stdout}),
                    pe \in (IF proc = "alive" /\ MemoEmpty THEN ErrText ELSE {p_stderr}) :
                    ssh_read(po, pe)
              /\ proc' = IF MemoEmpty THEN "exited" ELSE proc
         ELSE /\ ret' = ReturnedNone
              /\ UNCHANGED <<memo, proc, p_stdout, p_stderr>>
  /\ first_pair' = Noted(ret', "_is_terminated" \in attrs /\ is_terminated)
  /\ UNCHANGED <<cfg, exe_found, file_out, file_err, flags, steps, comm_started,
                 userns, silent, cont, jobstate, caller, npolls, line, signals,
                 polls, interrupts>>

\* The remote command ends by itself.
ProcessExits ==
  /\ wlm = "ssh" /\ proc = "alive"
  /\ proc' = "exited"
  /\ \E po \in OutText, pe \in ErrText : p_stdout' = po /\ p_stderr' = pe
  /\ UNCHANGED <<cfg, exe_found, file_out, file_err, flags, memo, steps,
                 comm_started, userns, ctl, hist>>

\* --------------------------------------------------------------- SlurmMgr
SlurmMgr_submit ==
  /\ CanCall /\ wlm = "slurm"
  /\ Begin("submit")
  /\ IF CommunicateError # ""
       THEN /\ End(Raised(CommunicateError), <<>>, <<>>)
            /\ UNCHANGED comm_started
       ELSE /\ pc' = "communicate" /\ ret' = NoReturn
            /\ Write(<<>>) /\ stderr' = <<>>
            /\ comm_started' = TRUE
  /\ UNCHANGED <<cfg, env, flags, memo, steps, userns, silent, cont, jobstate,
                 caller, npolls, line, signals, polls, interrupts,
                 first_pair>>

\* a submit that exports the job id whether or not --jobid was given
ExportJobid_Always == TRUE

\* if self._args_jobid
ExportJobid == args_var

\* sbatch has answered ack on its standard output and e on its standard error.
submit_parse(ack, e) ==
  /\ attrs' = attrs \cup {"_jobid"}
  /\ IF StartsWithMarker(ack.tokens)
       THEN IF IntOf(LastPiece(ack.tokens)) < 0
              THEN /\ jobid' = 0
                   /\ ret' = Raised("ValueError")
                   /\ UNCHANGED <<is_started, is_terminated, userns, stderr>>
              ELSE /\ jobid' = IntOf(LastPiece(ack.tokens))
                   /\ is_started' = TRUE
                   /\ userns' = IF ExportJobid THEN Append(userns, jobid') ELSE userns
                   /\ ret' = Returned(ack.text, e)
                   /\ UNCHANGED <<is_terminated, stderr>>
       ELSE /\ jobid' = 0
            /\ stderr' = Append(stderr, "Error during job submission\n")
            /\ is_terminated' = TRUE
            /\ ret' = Returned(ack.text, e)
            /\ UNCHANGED <<is_started, userns>>

SlurmMgr_submit_done ==
  /\ pc = "communicate" /\ wlm = "slurm"
  /\ \E ack \in SbatchOut, e \in ErrText : submit_parse(ack, e)
  /\ proc' = "exited" /\ pc' = "idle"
  /\ UNCHANGED <<cfg, exe_found, p_stdout, p_stderr, file_out, file_err, memo,
                 steps, comm_started, silent, cont, jobstate, caller, last_call,
                 ncalls, npolls, line, signals, polls, cmds, seen, console, interrupts, slept, first_pair>>

\* _get_job_state: sacct, and squeue when sacct printed nothing.
StateOutputs ==
  IF sched = "full" THEN FullOutputs ELSE (SacctOut \ {<<>>}) \cup SqueueOut

\* _get_job_state returns js: one more query made
get_job_state(js) ==
  /\ cmds' = Append(cmds, "state")
  /\ seen' = [seen EXCEPT ![Bucket(js)] = @ + 1]
  /\ npolls' = npolls + 1

\* a wait_progress that polls whether or not the job was started
JobStarted_Always == TRUE

\* if self._is_started
JobStarted == is_started

SlurmMgr_wait_progress ==
  /\ CanCall /\ wlm = "slurm"
  /\ Begin("wait_progress")
  /\ \E sil \in BOOLEAN : silent' = sil
  /\ IF JobStarted
       THEN pc' = "first_query" /\ ret' = NoReturn /\ Write(<<>>) /\ stderr' = <<>>
       ELSE End(ReturnedNone, <<>>, <<>>)
  /\ UNCHANGED <<cfg, env, flags, memo, steps, comm_started, userns, cont,
                 jobstate, caller, npolls, line, signals, polls, interrupts, first_pair>>

\* jobstate = self._get_job_state(), before the try
SlurmMgr_wait_progress_first ==
  /\ pc = "first_query"
  /\ \E js \in StateOutputs : get_job_state(js) /\ jobstate' = js
  /\ pc' = "loop"
  /\ UNCHANGED <<cfg, env, flags, memo, steps, comm_started, userns, silent,
                 cont, caller, last_call, ret, ncalls, line, signals, polls,
                 console, stderr, interrupts, slept, first_pair>>

\* What wait_progress writes once the loop, or the handler, is over.
end_writes ==
  IF silent THEN <<>>
  ELSE IF waiting_steps > 0 \/ running_steps > 0
         THEN <<"\nEnd batch job">> ELSE <<"End batch job">>

\* The while test; then the wait branch of the body, or the end of the call.
SlurmMgr_wait_progress_loop ==
  /\ pc = "loop"
  /\ IF NoEndState(jobstate)
       THEN /\ IF AnyWaitState(jobstate)
                 THEN step_waiting
                 ELSE UNCHANGED <<steps, console, slept>>
            /\ pc' = "run_branch"
            /\ UNCHANGED <<is_terminated, ret, jobstate>>
       ELSE /\ is_terminated' = TRUE
            /\ Write(end_writes)
            /\ pc' = "idle" /\ ret' = ReturnedNone /\ jobstate' = <<>>
            /\ UNCHANGED <<steps, slept>>
  /\ UNCHANGED <<cfg, env, attrs, is_started, jobid, memo, comm_started, userns,
                 silent, cont, caller, last_call, ncalls, npolls,
                 line, signals, polls, cmds, seen, stderr, interrupts,
                 first_pair>>

\* a run branch that writes the newline before every running step that
\* follows a waiting step
SlurmMgr_wait_progress_run_Newlines ==
  /\ pc = "run_branch"
  /\ IF AnyRunState(jobstate)
       THEN step_running(IF waiting_steps > 0 /\ ~silent
                           THEN <<"\n">> ELSE <<>>)
       ELSE UNCHANGED <<steps, console, slept>>
  /\ pc' = "query"
  /\ UNCHANGED <<cfg, env, flags, memo, comm_started, userns, silent, cont,
                 jobstate, caller, last_call, ret, ncalls, npolls, line,
                 signals, polls, cmds, seen, stderr, interrupts, first_pair>>

\* The run branch of the body.
SlurmMgr_wait_progress_run ==
  /\ pc = "run_branch"
  /\ IF AnyRunState(jobstate)
       THEN step_running(IF waiting_steps > 0 /\ running_steps = 0 /\ ~silent
                           THEN <<"\n">> ELSE <<>>)
       ELSE UNCHANGED <<steps, console, slept>>
  /\ pc' = "query"
  /\ UNCHANGED <<cfg, env, flags, memo, comm_started, userns, silent, cont,
                 jobstate, caller, last_call, ret, ncalls, npolls, line,
                 signals, polls, cmds, seen, stderr, interrupts, first_pair>>

\* jobstate = self._get_job_state(), the last statement of the body
SlurmMgr_wait_progress_query ==
  /\ pc = "query" /\ npolls < MaxPolls
  /\ \E js \in StateOutputs : get_job_state(js) /\ jobstate' = js
  /\ pc' = "loop"
  /\ UNCHANGED <<cfg, env, flags, memo, steps, comm_started, userns, silent,
                 cont, caller, last_call, ret, ncalls, line, signals, polls,
                 console, stderr, interrupts, slept, first_pair>>

\* The KeyboardInterrupt handler: scancel, then sleep(1).
SlurmMgr_wait_progress_cancel ==
  /\ pc = "cancel"
  /\ cmds' = Append(cmds, "scancel") /\ UNCHANGED seen
  /\ slept' = Append(slept, 1)
  /\ pc' = "requery"
  /\ UNCHANGED <<cfg, env, flags, memo, steps, comm_started, userns, silent,
                 cont, jobstate, caller, last_call, ret, ncalls, npolls, line,
                 signals, polls, console, stderr, interrupts,
                 first_pair>>

\* a handler whose query takes the call back into the polling loop
SlurmMgr_wait_progress_requery_Loops ==
  /\ pc = "requery"
  /\ \E js \in StateOutputs : get_job_state(js) /\ jobstate' = js
  /\ pc' = "loop"
  /\ UNCHANGED <<cfg, env, flags, memo, steps, comm_started, userns, silent,
                 cont, caller, last_call, ret, ncalls, line, signals, polls,
                 console, stderr, interrupts, slept, first_pair>>

\* The handler's query, and the end of the call (jobstate, a local variable,
\* ends with it).
SlurmMgr_wait_progress_requery ==
  /\ pc = "requery"
  /\ \E js \in StateOutputs : get_job_state(js)
  /\ jobstate' = <<>>
  /\ is_terminated' = TRUE
  /\ Write(end_writes)
  /\ pc' = "idle" /\ ret' = ReturnedNone
  /\ UNCHANGED <<cfg, env, attrs, is_started, jobid, memo, steps, comm_started,
                 userns, silent, cont, caller, last_call, ncalls, line, signals,
                 polls, stderr, interrupts, slept, first_pair>>

\* Whether job_err is bound at `self.out, self.err = job_out, job_err`: it is
\* assigned where the .out file is missing and where the .err file is read.
job_err_bound(fo, fe) == fo = Missing \/ fe # Missing

\* The files read: a missing file counts as "" and is reported.
job_out(fo) == IF fo = Missing THEN "" ELSE fo
job_err(fe) == IF fe = Missing THEN "" ELSE fe
not_found(fo, fe) ==
  (IF fo = Missing THEN <<"File not found : .out">> ELSE <<>>)
  \o (IF fe = Missing THEN <<"File not found : .err">> ELSE <<>>)

\* get_output of a started and terminated job whose state is js and whose
\* result files are fo and fe.
slurm_read(js, fo, fe) ==
  LET cmd == IF Find(js, "COMPLETED") THEN <<>> ELSE <<"Slurm command was : ">>
  IN IF MemoEmpty
       THEN /\ stderr' = cmd \o not_found(fo, fe)
            /\ IF job_err_bound(fo, fe)
                 THEN /\ out' = job_out(fo) /\ err' = job_err(fe)
                      /\ ret' = Returned(job_out(fo), job_err(fe))
                 ELSE /\ ret' = Raised("UnboundLocalError")
                      /\ UNCHANGED memo
       ELSE /\ stderr' = cmd
            /\ ret' = Returned(out, err)
            /\ UNCHANGED memo

\* The result files are whatever the scheduler and the job have made of them
\* by the time of the call: missing, written, rewritten since the last call.
SlurmMgr_get_output ==
  /\ CanCall /\ wlm = "slurm"
  /\ Begin("get_output")
  /\ pc' = "idle" /\ Write(<<>>)
  /\ IF is_started /\ is_terminated
       THEN \E js \in StateOutputs, fo \in FileOut, fe \in FileErr :
              /\ file_out' = fo /\ file_err' = fe
              /\ slurm_read(js, fo, fe)
       ELSE /\ ret' = Returned(None_, None_)
            /\ stderr' = <<>>
            /\ UNCHANGED <<memo, file_out, file_err>>
  /\ first_pair' = Noted(ret', is_terminated)
  /\ UNCHANGED <<cfg, exe_found, proc, p_stdout, p_stderr, flags, steps,
                 comm_started, userns, silent, cont, jobstate, caller, npolls,
                 line, signals, polls, interrupts>>

\* ---------------------------------------------------------- user interrupt
\* The places where a call sleeps or waits for a process, and so where a
\* KeyboardInterrupt arrives.  In the loop of SlurmMgr.wait_progress these
\* are the sleep of _step_waiting (before the run branch) and the sleep of
\* _step_running and the query (after it).
InTry == {"run_branch", "query"}
Interruptible ==
  {"communicate", "spawn", "sigint", "terminate", "kill", "ssh_poll",
   "first_query", "cancel", "requery"} \cup InTry

\* a handler that returns without calling _interrupt
enter_interrupt_Skips(from) ==
  /\ pc' = "idle" /\ cont' = from
  /\ signals' = <<>> /\ polls' = <<>>
  /\ ret' = ReturnedNone /\ UNCHANGED console

\* The handler of submit calls _interrupt.
enter_interrupt(from) ==
  /\ pc' = "sigint" /\ cont' = from
  /\ signals' = <<>> /\ polls' = <<>>
  /\ UNCHANGED <<ret, console>>

KeyboardInterrupt ==
  /\ pc \in Interruptible /\ interrupts < MaxInterrupts
  /\ interrupts' = interrupts + 1
  /\ CASE pc = "communicate" ->
            enter_interrupt("submit") /\ UNCHANGED jobstate
       [] pc = "spawn" ->
            /\ IF "p" \in attrs
                 THEN enter_interrupt("ssh_submit")
                 ELSE /\ pc' = "idle" /\ ret' = Raised("AttributeError")
                      /\ UNCHANGED <<cont, signals, polls, console>>
            /\ UNCHANGED jobstate
       [] pc \in InTry ->
            /\ pc' = "cancel"
            /\ Write(<<"Terminate job">>)
            /\ UNCHANGED <<cont, signals, polls, ret, jobstate>>
       [] OTHER ->
            /\ pc' = "idle" /\ ret' = Raised("KeyboardInterrupt")
            /\ jobstate' = <<>>
            /\ UNCHANGED <<cont, signals, polls, console>>
  /\ UNCHANGED <<cfg, env, flags, memo, steps, comm_started, userns, silent,
                 caller, last_call, ncalls, npolls, line, cmds, seen,
                 stderr, slept, first_pair>>

\* ---------------------------------------------------------- specification
Next ==
  \/ BasicMgr_init \/ SSHMgr_init \/ SlurmMgr_init
  \/ execute
  \/ BasicMgr_submit \/ BasicMgr_submit_done
  \/ BasicMgr_wait_progress \/ BasicMgr_get_output
  \/ interrupt_sigint \/ interrupt_terminate \/ interrupt_kill
  \/ SSHMgr_submit \/ SSHMgr_submit_spawn \/ SSHMgr_submit_interrupted
  \/ SSHMgr_wait_progress \/ SSHMgr_wait_progress_poll \/ SSHMgr_get_output
  \/ ProcessExits
  \/ SlurmMgr_submit \/ SlurmMgr_submit_done
  \/ SlurmMgr_wait_progress \/ SlurmMgr_wait_progress_first
  \/ SlurmMgr_wait_progress_loop \/ SlurmMgr_wait_progress_run
  \/ SlurmMgr_wait_progress_query \/ SlurmMgr_wait_progress_cancel
  \/ SlurmMgr_wait_progress_requery \/ SlurmMgr_get_output
  \/ KeyboardInterrupt

Spec == Init /\ [][Next]_vars


\* ------------------------------------------------- the step methods alone
\* An instance whose step methods are called directly, one call after the
\* other: _print_step_and_wait with any s (before the sequences begin: it
\* reads no counter), _step_waiting and _step_running as often as MaxSteps
\* allows.
InitSteps ==
  /\ wlm = "ssh" /\ args_var = FALSE /\ step_s = 0 /\ sched = "short"
  /\ exe_found = TRUE
  /\ proc = "none" /\ p_stdout = "" /\ p_stderr = ""
  /\ file_out = Missing /\ file_err = Missing
  /\ attrs = {} /\ is_started = FALSE /\ is_terminated = FALSE /\ jobid = 0
  /\ out = None_ /\ err = None_
  /\ waiting_steps = 0 /\ running_steps = 0
  /\ comm_started = FALSE /\ userns = <<>>
  /\ pc = "steps" /\ silent = FALSE /\ cont = "" /\ jobstate = <<>>
  /\ caller = "client" /\ last_call = "__init__" /\ ret = ReturnedNone
  /\ ncalls = 0 /\ npolls = 0 /\ line = [bg |-> FALSE, amgr |-> FALSE]
  /\ signals = <<>> /\ polls = <<>> /\ cmds = <<>> /\ seen = NoneSeen
  /\ stdout = [x \in Counted |-> 0] /\ wrote = <<>> /\ stderr = <<>>
  /\ interrupts = 0 /\ slept = <<>> /\ first_pair = NoReturn

\* A call begins, with its arguments.
direct_call ==
  /\ pc = "steps"
  /\ \E m \in {"_print_step_and_wait", "_step_waiting", "_step_running"},
        sil \in BOOLEAN, s \in 0..MaxSteps :
       /\ m = "_print_step_and_wait"
            => (waiting_steps = 0 /\ running_steps = 0)
       /\ m = "_step_waiting" => (s = 0 /\ waiting_steps < MaxSteps)
       /\ m = "_step_running" => (s = 0 /\ running_steps < MaxSteps)
       /\ last_call' = m /\ silent' = sil /\ step_s' = s
       /\ pc' = m
  /\ slept' = <<>> /\ Write(<<>>)
  /\ UNCHANGED <<wlm, args_var, sched, env, flags, memo, steps, comm_started,
                 userns, cont, jobstate, caller, ret, ncalls, npolls, line,
                 signals, polls, cmds, seen, stderr, interrupts, first_pair>>

direct_print_step_and_wait ==
  /\ pc = "_print_step_and_wait"
  /\ LET p == print_step_and_wait(step_s, silent)
     IN Write(p.w) /\ slept' = slept \o p.t
  /\ pc' = "steps"
  /\ UNCHANGED <<cfg, env, flags, memo, steps, comm_started, userns, silent,
                 cont, jobstate, caller, last_call, ret, ncalls, npolls, line,
                 signals, polls, cmds, seen, stderr, interrupts, first_pair>>

direct_step_waiting ==
  /\ pc = "_step_waiting"
  /\ step_waiting
  /\ pc' = "steps"
  /\ UNCHANGED <<cfg, env, flags, memo, comm_started, userns, silent,
                 cont, jobstate, caller, last_call, ret, ncalls, npolls, line,
                 signals, polls, cmds, seen, stderr, interrupts, first_pair>>

direct_step_running ==
  /\ pc = "_step_running"
  /\ step_running(<<>>)
  /\ pc' = "steps"
  /\ UNCHANGED <<cfg, env, flags, memo, comm_started, userns, silent,
                 cont, jobstate, caller, last_call, ret, ncalls, npolls, line,
                 signals, polls, cmds, seen, stderr, interrupts, first_pair>>

NextSteps ==
  \/ direct_call \/ direct_print_step_and_wait
  \/ direct_step_waiting \/ direct_step_running

SpecSteps == InitSteps /\ [][NextSteps]_vars

\* ------------------------------------------ polling with every state word
\* A SlurmMgr whose submit was acknowledged with job 4242, on a scheduler
\* that can answer any state word; the client calls wait_progress.
InitPoll ==
  /\ wlm = "slurm" /\ args_var = FALSE /\ step_s = 0 /\ sched = "full"
  /\ exe_found = TRUE
  /\ proc = "exited" /\ p_stdout = "" /\ p_stderr = ""
  /\ file_out = Missing /\ file_err = Missing
  /\ attrs = {"p", "_is_started", "_is_terminated", "_jobid"}
  /\ is_started = TRUE /\ is_terminated = FALSE /\ jobid = 4242
  /\ out = None_ /\ err = None_
  /\ waiting_steps = 0 /\ running_steps = 0
  /\ comm_started = TRUE /\ userns = <<>>
  /\ pc = "idle" /\ silent = FALSE /\ cont = "" /\ jobstate = <<>>
  /\ caller = "client" /\ last_call = "submit"
  /\ ret = Returned(AckOk.text, "")
  /\ ncalls = 1 /\ npolls = 0 /\ line = [bg |-> FALSE, amgr |-> FALSE]
  /\ signals = <<>> /\ polls = <<>> /\ cmds = <<>> /\ seen = NoneSeen
  /\ stdout = [x \in Counted |-> 0] /\ wrote = <<>> /\ stderr = <<>>
  /\ interrupts = 0 /\ slept = <<>> /\ first_pair = NoReturn

NextPoll ==
  \/ SlurmMgr_wait_progress \/ SlurmMgr_wait_progress_first
  \/ SlurmMgr_wait_progress_loop \/ SlurmMgr_wait_progress_run
  \/ SlurmMgr_wait_progress_query

SpecPoll == InitPoll /\ [][NextPoll]_vars

\* ------------------------------------------------ waiting for a job's end
\* An SSHMgr whose submit found the remote process still running.
InitRemote ==
  /\ wlm = "ssh" /\ args_var = FALSE /\ step_s = 0 /\ sched = "short"
  /\ exe_found = TRUE
  /\ proc = "alive" /\ p_stdout = "" /\ p_stderr = ""
  /\ file_out = Missing /\ file_err = Missing
  /\ attrs = {"p", "_is_terminated"}
  /\ is_started = FALSE /\ is_terminated = FALSE /\ jobid = 0
  /\ out = None_ /\ err = None_
  /\ waiting_steps = 0 /\ running_steps = 0
  /\ comm_started = FALSE /\ userns = <<>>
  /\ pc = "idle" /\ silent = FALSE /\ cont = "" /\ jobstate = <<>>
  /\ caller = "client" /\ last_call = "submit"
  /\ ret = Raised("NameError")
  /\ ncalls = 1 /\ npolls = 0 /\ line = [bg |-> FALSE, amgr |-> FALSE]
  /\ signals = <<>> /\ polls = <<>> /\ cmds = <<>> /\ seen = NoneSeen
  /\ stdout = [x \in Counted |-> 0] /\ wrote = <<>> /\ stderr = <<>>
  /\ interrupts = 0 /\ slept = <<>> /\ first_pair = NoReturn

\* A started cluster job, or a running remote process; the client calls
\* wait_progress, the user may interrupt.
InitWait == InitPoll \/ InitRemote

NextWait ==
  \/ SlurmMgr_wait_progress \/ SlurmMgr_wait_progress_first
  \/ SlurmMgr_wait_progress_loop \/ SlurmMgr_wait_progress_run
  \/ SlurmMgr_wait_progress_query \/ SlurmMgr_wait_progress_cancel
  \/ SlurmMgr_wait_progress_requery
  \/ SSHMgr_wait_progress \/ SSHMgr_wait_progress_poll
  \/ ProcessExits
  \/ KeyboardInterrupt

\* The interpreter goes on with the statement a call stands at: a query is
\* answered, a sleep ends.  Nothing makes the client call, the process exit
\* or the user interrupt.
FairWait ==
  /\ WF_vars(SlurmMgr_wait_progress_first)
  /\ WF_vars(SlurmMgr_wait_progress_loop)
  /\ WF_vars(SlurmMgr_wait_progress_run)
  /\ WF_vars(SlurmMgr_wait_progress_query)
  /\ WF_vars(SlurmMgr_wait_progress_cancel)
  /\ WF_vars(SlurmMgr_wait_progress_requery)
  /\ WF_vars(SSHMgr_wait_progress_poll)

SpecWait == InitWait /\ [][NextWait]_vars /\ FairWait

\* ------------------------------------------------------------------ claims
\* The job is marked terminated: _is_terminated of SSHMgr and SlurmMgr;
\* BasicMgr keeps no flag, its process has exited when submit returned.
MarkedTerminated ==
  IF wlm = "basic" THEN proc = "exited"
  ELSE "_is_terminated" \in attrs /\ is_terminated

\* A get_output call has just returned or raised.
AfterGetOutput == pc = "idle" /\ last_call = "get_output"

\* C1: for every backend, a get_output call made while the job is not marked
\* terminated returns the pair (None, None).
C1_NotReadyIsNonePair ==
  (AfterGetOutput /\ ~MarkedTerminated) => ret = Returned(None_, None_)

\* C2: once the job is terminated, every pair get_output returns is the pair
\* its first call after termination returned, whatever has become of the
\* result files and the pipes since.
C2_OutputMemoized ==
  (AfterGetOutput /\ MarkedTerminated /\ ret.kind = "pair") => ret = first_pair

\* C2 witness: a get_output of a terminated Slurm job returns what an
\* earlier call read although the .out file has been rewritten since.
C2_Witness ==
  /\ wlm = "slurm" /\ AfterGetOutput /\ MarkedTerminated
  /\ ret = Returned("o1", "e1") /\ first_pair = ret
  /\ file_out = "o2"


\* The instance's first wait_progress call to poll has returned without an
\* interrupt: every query the instance ever made is one of this call.
FirstPollingReturned ==
  /\ wlm = "slurm" /\ pc = "idle" /\ last_call = "wait_progress"
  /\ ret = ReturnedNone
  /\ cmds # <<>> /\ ~Find(cmds, "scancel") /\ npolls = Len(cmds)

\* One turn of the polling loop on the state just observed.
PollingTurn ==
  /\ (pc = "loop" /\ Bucket(jobstate) = "wait")
       => (waiting_steps' = waiting_steps + 1 /\ running_steps' = running_steps)
  /\ (pc = "loop" /\ Bucket(jobstate) # "wait") => UNCHANGED steps
  /\ (pc = "run_branch" /\ pc' = "query" /\ Bucket(jobstate) = "run")
       => (running_steps' = running_steps + 1 /\ waiting_steps' = waiting_steps)
  /\ (pc = "run_branch" /\ Bucket(jobstate) # "run") => UNCHANGED steps
  /\ (pc = "loop" /\ Bucket(jobstate) = "end")
       => (pc' = "idle" /\ is_terminated' /\ cmds' = cmds)
  /\ (pc = "loop" /\ Bucket(jobstate) # "end") => pc' = "run_branch"

\* C3: SlurmMgr.wait_progress on a started job takes one waiting step for
\* each wait-bucket observation and one running step for each run-bucket
\* observation, and stops at the first end-bucket observation with the job
\* marked terminated and no further query: turn by turn in every call, and
\* in total over the first call that polls (the counters are the instance's).
C3_StepsFollowObservations ==
  /\ [](FirstPollingReturned =>
          /\ is_terminated
          /\ waiting_steps = seen.wait
          /\ running_steps = seen.run
          /\ seen.end = 1
          /\ Len(cmds) = seen.wait + seen.run + seen.none + 1)
  /\ [][PollingTurn]_vars

\* C3 witness: PENDING, PENDING, RUNNING, then an end state: two waiting
\* steps, one running step, four queries.
C3_Witness ==
  /\ FirstPollingReturned
  /\ seen = [wait |-> 2, run |-> 1, end |-> 1, none |-> 0]
  /\ waiting_steps = 2 /\ running_steps = 1 /\ Len(cmds) = 4

\* The submission was rejected: not started, and marked failed.
Rejected == wlm = "slurm" /\ ~is_started /\ is_terminated

\* C4: an acknowledgment that does not start with "Submitted batch job"
\* leaves the job not started and marked failed; from then on it stays so,
\* wait_progress queries nothing and takes no step, and get_output returns
\* (None, None).
C4_RejectedSubmissionIsInert ==
  /\ [](Rejected =>
          /\ pc \notin {"first_query", "loop", "run_branch", "query",
                        "cancel", "requery"}
          /\ npolls = 0 /\ waiting_steps = 0 /\ running_steps = 0
          /\ (pc = "idle" /\ last_call = "wait_progress")
               => (ret = ReturnedNone /\ cmds = <<>> /\ slept = <<>>)
          /\ AfterGetOutput => ret = Returned(None_, None_))
  /\ [][/\ (/\ wlm = "slurm" /\ pc = "communicate" /\ pc' = "idle"
            /\ ret'.kind = "pair"
            /\ ret'.a \in {AckRejected.text, AckNothing.text}) => Rejected'
        /\ Rejected => Rejected']_vars

\* C4 witness: wait_progress has returned on a rejected submission.
C4_Witness ==
  /\ Rejected /\ pc = "idle" /\ last_call = "wait_progress" /\ ncalls >= 2

\* C5: get_output of a started and terminated Slurm job returns a defined
\* pair, without raising, whichever of the .out and .err files are missing.
C5_MissingFilesTolerated ==
  (wlm = "slurm" /\ AfterGetOutput /\ is_started /\ is_terminated)
    => (ret.kind = "pair" /\ ret.a # None_ /\ ret.b # None_)

\* C6: when the executable to spawn does not exist, no process is started
\* and no call on the handle raises.
C6_MissingExecutableIsQuiet ==
  (caller = "client" /\ ~exe_found /\ interrupts = 0)
    => (ret.kind # "raise" /\ proc = "none")

\* A wait_progress call of SlurmMgr has returned after its handler ran.
CancelledReturned ==
  /\ wlm = "slurm" /\ pc = "idle" /\ last_call = "wait_progress"
  /\ ret = ReturnedNone /\ Find(cmds, "scancel")

Ladder == <<"SIGINT", "SIGTERM", "SIGKILL">>
InLadder == pc \in {"sigint", "terminate", "kill"}

\* C8: _interrupt sends interrupt, terminate, kill in this order; terminate
\* and kill only after the liveness check before them saw the process alive,
\* nothing once a check saw it exited; the step that ends the ladder, an
\* OSError included, raises nothing.
C8_LadderOrderAndGating ==
  /\ [](/\ Len(signals) <= 3 /\ signals = SubSeq(Ladder, 1, Len(signals))
        /\ Len(polls) <= 2 /\ Len(polls) <= Len(signals)
        /\ \A i \in DOMAIN polls :
             polls[i] => (i = Len(polls) /\ Len(signals) = i)
        /\ \A k \in 2..Len(signals) : Len(polls) >= k - 1 /\ ~polls[k - 1])
  /\ [][(InLadder /\ signals' # signals /\ ~InLadder')
          => (ret'.kind # "raise" /\ pc' \in {"idle", "ssh_interrupted"})]_vars

\* C8 witness: the whole ladder ran, the process alive at both checks.
C8_Witness ==
  /\ signals = Ladder /\ polls = <<FALSE, FALSE>> /\ pc = "idle"

\* C9: a wait_progress call of SSHMgr that found the process alive at its
\* first poll ends, interrupted or not, with the job marked terminated, and
\* raises nothing.
C9_InterruptedWaitEndsTerminal ==
  (wlm = "ssh" /\ pc = "idle" /\ last_call = "wait_progress" /\ slept # <<>>)
    => (ret = ReturnedNone /\ is_terminated)

\* C10: a foreground execute ends only after get_output, the last of its
\* three calls on the backend, and raises nothing.
C10_ForegroundSequence ==
  (caller = "execute" /\ pc = "exited" /\ ~line.bg)
    => (ret.kind # "raise" /\ last_call = "get_output" /\ ncalls = 3)


\* C11 as claimed: once BasicMgr.submit has captured the output, get_output
\* returns the captured pair.
C11_GetOutputReturnsCaptured ==
  (wlm = "basic" /\ AfterGetOutput /\ out # None_) => ret = Returned(out, err)

\* C11: a BasicMgr.submit that runs to its end leaves the process exited in
\* that step and keeps the pair it returns in out, err; wait_progress and
\* get_output change nothing, and get_output returns (None, None).
C11_SubmitCapturesGetOutputSkips ==
  /\ []((wlm = "basic")
          => /\ out # None_ => proc = "exited"
             /\ AfterGetOutput => ret = Returned(None_, None_))
  /\ [][(wlm = "basic")
          => /\ (pc = "communicate" /\ pc' = "idle")
                  => /\ proc' = "exited" /\ ret'.kind = "pair"
                     /\ out' = ret'.a /\ err' = ret'.b
             /\ (pc = "idle" /\ ncalls' # ncalls
                 /\ last_call' \in {"wait_progress", "get_output"})
                  => UNCHANGED <<env, flags, memo, steps, comm_started,
                                 userns>>]_vars

\* C11 witness: get_output has returned (None, None) after a submit that
\* captured "o1".
C11_Witness ==
  /\ wlm = "basic" /\ AfterGetOutput /\ out = "o1"
  /\ ret = Returned(None_, None_)

\* C12: SSHMgr.submit, the process spawned and no interrupt, returns a pair:
\* the captured output with the job marked terminated when the process had
\* exited at the liveness check, else a text pair with the job not
\* terminated and the pid stored under the --pid variable when one was given.
C12_SubmitProbesOnce ==
  (/\ wlm = "ssh" /\ pc = "idle" /\ last_call = "submit"
   /\ "p" \in attrs /\ interrupts = 0)
    => /\ ret.kind = "pair"
       /\ is_terminated => ret = Returned(out, err)
       /\ (~is_terminated /\ args_var) => userns # <<>>

\* The rows of the progress table as the spec gives them, for a step count s.
GlyphOf(s) ==
  IF s <= 9 THEN "." ELSE IF s <= 19 THEN "o" ELSE IF s <= 29 THEN "O" ELSE "@"
SleepOf(s) ==
  IF s <= 9 THEN 1 ELSE IF s <= 19 THEN 10 ELSE IF s <= 29 THEN 60 ELSE 600

\* A direct call of a step method has returned.
DirectReturned(m) == pc = "steps" /\ last_call = m

\* C13: _print_step_and_wait(s) sleeps 1 s with '.' for s in 0..9, 10 s with
\* 'o' for 10..19, 60 s with 'O' for 20..29 and 600 s with '@' from 30 on;
\* silent, it writes no glyph and sleeps the same.
C13_StepperRows ==
  DirectReturned("_print_step_and_wait")
    => /\ slept = <<SleepOf(step_s)>>
       /\ wrote = IF silent THEN <<>> ELSE <<GlyphOf(step_s)>>

\* C13 witness: the last row, reached with s = 30.
C13_Witness ==
  /\ DirectReturned("_print_step_and_wait") /\ step_s = 30 /\ ~silent
  /\ wrote = <<"@">> /\ slept = <<600>>

\* C16: in a step sequence the steps 1..10 show '.' and wait 1 s, the steps
\* 11..20 show 'o' and wait 10 s, the steps 21..30 show 'O' and wait 60 s,
\* every later step shows '@' and waits 600 s.
C16_SequenceCadence ==
  (/\ pc = "steps" /\ last_call \in {"_step_waiting", "_step_running"}
   /\ ~silent)
    => LET k == IF last_call = "_step_waiting" THEN waiting_steps
                ELSE running_steps
       IN /\ Len(wrote) > 0 /\ wrote[Len(wrote)] = GlyphOf(k - 1)
          /\ slept = <<SleepOf(k - 1)>>


\* C14: SlurmMgr marks the job started and stores its id only in the submit
\* whose acknowledgment is "Submitted batch job 4242", the id being 4242; the
\* id is written to the caller's namespace only then, only when --jobid named
\* a variable, and once.
C14_JobIdOnlyOnSuccess ==
  /\ []((wlm = "slurm")
          => /\ jobid \in {0, 4242}
             /\ is_started <=> jobid = 4242
             /\ Len(userns) <= 1
             /\ userns # <<>> <=> (args_var /\ is_started)
             /\ userns # <<>> => userns = <<jobid>>)
  /\ [][(/\ wlm = "slurm"
         /\ \/ is_started' # is_started
            \/ jobid' # jobid
            \/ userns' # userns)
          => (pc = "communicate" /\ ret' = Returned(AckOk.text, ret'.b))]_vars

\* C14 witness: a second submit on a started job has raised and the one id
\* written to the namespace is still the only one.
C14_Witness ==
  /\ wlm = "slurm" /\ is_started /\ userns = <<4242>>
  /\ pc = "idle" /\ last_call = "submit" /\ ret = Raised("ValueError")

\* C15: a background execute returns without raising, and the wait task it
\* hands over, wait_progress(silent=True), raises nothing on any backend
\* that has its process.
C15_BackgroundHandsOver ==
  /\ (caller = "execute" /\ pc = "exited" /\ line.bg) => ret.kind # "raise"
  /\ (/\ caller = "client" /\ pc = "idle" /\ last_call = "wait_progress"
      /\ silent /\ interrupts = 0 /\ (wlm = "ssh" => "p" \in attrs))
       => ret.kind # "raise"

\* C17: a job once marked started stays started, a job once marked
\* terminated stays terminated.
C17_MarksNeverCleared ==
  [][(is_started => is_started') /\ (is_terminated => is_terminated')]_vars

\* C18: the counters only grow, by 1, one at a time and only in the step
\* that belongs to them; a banner is written exactly in the non-silent step
\* that takes its counter from 0 to 1, so at most once.
C18_CountersAndBanners ==
  /\ [](/\ stdout["Waiting for resources "] <= 1
        /\ stdout["Running "] <= 1
        /\ stdout["Waiting for resources "] = 1 => waiting_steps >= 1
        /\ stdout["Running "] = 1 => running_steps >= 1)
  /\ [][/\ waiting_steps' \in {waiting_steps, waiting_steps + 1}
        /\ running_steps' \in {running_steps, running_steps + 1}
        /\ ~(waiting_steps' # waiting_steps /\ running_steps' # running_steps)
        /\ waiting_steps' # waiting_steps => pc \in {"loop", "_step_waiting"}
        /\ running_steps' # running_steps
             => pc \in {"run_branch", "ssh_poll", "_step_running"}
        /\ stdout'["Waiting for resources "] # stdout["Waiting for resources "]
             <=> (waiting_steps = 0 /\ waiting_steps' = 1 /\ ~silent)
        /\ stdout'["Running "] # stdout["Running "]
             <=> (running_steps = 0 /\ running_steps' = 1 /\ ~silent)]_vars

\* C18 witness: both banners written once, the waiting one followed by a
\* second waiting step.
C18_Witness ==
  /\ stdout["Waiting for resources "] = 1 /\ stdout["Running "] = 1
  /\ waiting_steps >= 2 /\ running_steps >= 1

C21_InterruptedSubmitAbandoned ==
  (wlm = "basic" /\ interrupts > 0) =>
    /\ cont = "submit" /\ "p" \in attrs
    /\ pc \in {"sigint", "terminate", "kill", "idle"}
    /\ (interrupts = 1 /\ pc # "sigint")
         => (signals # <<>> /\ signals[1] = "SIGINT")
    /\ out = None_ /\ err = None_
    /\ (pc = "idle" /\ last_call = "get_output")
         => ret = Returned(None_, None_)

\* C21 witness: get_output has returned after an interrupted submit whose
\* ladder went past the interrupt signal.
C21_Witness ==
  /\ wlm = "basic" /\ interrupts > 0 /\ Len(signals) >= 2
  /\ pc = "idle" /\ last_call = "get_output"
  /\ ret = Returned(None_, None_)

\* The words of the end bucket, and a scheduler answer that contains one.
HasEndWord(js) ==
  \E i \in DOMAIN js :
    js[i] \in {"CANCELLED", "COMPLETED", "FAILED", "NODE_FAIL", "PREEMPTED",
               "TIMEOUT"}

\* An uninterrupted wait_progress has what it waits for: the last query was
\* answered with an end word, or the remote process has exited.
EndObserved ==
  /\ interrupts = 0
  /\ \/ wlm = "slurm" /\ pc = "loop" /\ HasEndWord(jobstate)
     \/ wlm = "ssh" /\ pc = "ssh_poll" /\ proc = "exited"

\* wait_progress has returned, the job marked terminated.
WaitReturnedTerminated ==
  /\ pc = "idle" /\ last_call = "wait_progress" /\ ret = ReturnedNone
  /\ MarkedTerminated

\* An uninterrupted wait_progress is between two observations.
Polling ==
  /\ interrupts = 0
  /\ pc \in {"first_query", "loop", "run_branch", "query", "ssh_poll"}

\* Every query or poll of the model was used and none saw the end.
NeverEnded ==
  /\ npolls >= MaxPolls
  /\ \/ wlm = "slurm" /\ pc = "query"
     \/ wlm = "ssh" /\ pc = "ssh_poll" /\ proc = "alive"

\* C22: with no interrupt, a wait_progress call whose query is answered with
\* an end word (SlurmMgr), or whose remote process has exited (SSHMgr),
\* returns with the job marked terminated, and a call goes from one
\* observation to the next until then; a SlurmMgr call that was not
\* interrupted returns with the job marked terminated only from an answer
\* that contains an end word.
C22_WaitEndsWithJob ==
  /\ EndObserved ~> (WaitReturnedTerminated \/ interrupts > 0)
  /\ Polling ~> (WaitReturnedTerminated \/ NeverEnded \/ interrupts > 0)
  /\ [][(/\ wlm = "slurm" /\ interrupts' = 0
          /\ last_call = "wait_progress" /\ pc # "idle" /\ pc' = "idle"
          /\ MarkedTerminated')
          => HasEndWord(jobstate)]_vars

\* C22 witness: an uninterrupted wait_progress returned, the job marked
\* terminated, after a waiting step, a running step and one end answer.
C22_Witness ==
  /\ wlm = "slurm" /\ WaitReturnedTerminated /\ interrupts = 0
  /\ seen.end = 1 /\ seen.wait >= 1 /\ seen.run >= 1

=============================================================================
